---- MODULE Spec2Model ----
(***************************************************************************)
(* Payment Collection API (Cloudflare Worker): GET /api/next-amount,       *)
(* POST /api/create-order, POST /api/verify-payment.                       *)
(*                                                                         *)
(* Every request is one run of the fetch handler.  A handler suspends at   *)
(* each await; the steps between two awaits are one action.  All requests  *)
(* talk to the store through the one binding env.DB: the statements of     *)
(* different requests interleave on that one handle, and BEGIN / COMMIT /  *)
(* ROLLBACK act on the handle's single transaction (SQLite, which the      *)
(* schema script is written for: a BEGIN inside an open transaction is an  *)
(* error, a read on the handle sees the handle's uncommitted writes).      *)
(* Every store statement and the provider call may also fail; a statement   *)
(* that fails has had no effect.  The OPTIONS preflight and the 404 route   *)
(* touch neither the store nor the provider and are left out.              *)
(***************************************************************************)
EXTENDS Integers, Sequences, FiniteSets, TLC

\* ---------------------------------------------------------------- bounds
NumReqs == 3

Reqs == 1..NumReqs

\* ------------------------------------------------------- program constants
\* (totalOrders + 1) * 10 in getNextOrderInfo
UnitPrice == 10
\* amount < 10 in handleCreateOrder
MinAmount == 10
\* /^\d{10}$/ in handleCreateOrder
MobileDigits == 10

\* ------------------------------------------------------------ JS values
Undef == [t |-> "undefined", v |-> <<>>]
Str(s) == [t |-> "string", v |-> s]
Num(n) == [t |-> "number", v |-> n]

\* a string is modelled as the sequence of its characters
Digits == {"0", "1", "2", "3", "4", "5", "6", "7", "8", "9"}
DigitChar(d) == CASE d = 0 -> "0" [] d = 1 -> "1" [] d = 2 -> "2" [] d = 3 -> "3"
                  [] d = 4 -> "4" [] d = 5 -> "5" [] d = 6 -> "6" [] d = 7 -> "7"
                  [] d = 8 -> "8" [] OTHER -> "9"

RECURSIVE DecStr(_)
\* Number.prototype.toString of a non-negative integer
DecStr(n) == IF n < 10 THEN <<DigitChar(n)>>
             ELSE DecStr(n \div 10) \o <<DigitChar(n % 10)>>

\* String(x), the coercion RegExp.prototype.test applies to its argument
ToStr(x) == CASE x.t = "string" -> x.v
              [] x.t = "number" -> DecStr(x.v)
              [] OTHER -> <<"u", "n", "d", "e", "f", "i", "n", "e", "d">>

\* !x
Falsy(x) == \/ x.t = "undefined"
            \/ x.t = "string" /\ Len(x.v) = 0
            \/ x.t = "number" /\ x.v = 0

\* /^\d{10}$/.test(mobile)
MobileOk(m) == LET s == ToStr(m)
               IN  Len(s) = MobileDigits /\ \A i \in 1..Len(s) : s[i] \in Digits

\* !amount || typeof amount !== 'number' || amount < 10
AmountBad(a) == Falsy(a) \/ a.t # "number" \/ a.v < MinAmount

\* --------------------------------------------------------------- inputs
Chars(c, n) == [i \in 1..n |-> c]

\* env.RZP_SECRET
Secret == "rzp_secret"

\* hex(HMAC-SHA-256(key, orderId + "|" + paymentId)): the keyed hash is a fixed
\* function of its key and its message, distinct inputs giving distinct digests
Hmac(key, orderId, paymentId) == <<key, orderId, "|", paymentId>>

\* a check whose digest covers the key and the order id but not the payment id
verifySignatureOrderOnly(orderId, paymentId, signature, secret) ==
    signature[1] = secret /\ signature[2] = orderId

\* a check that accepts every signature
verifySignatureAny(orderId, paymentId, signature, secret) == TRUE

\* verifySignature(orderId, paymentId, signature, secret)
verifySignature(orderId, paymentId, signature, secret) ==
    Hmac(secret, orderId, paymentId) = signature

OrderIds == {"order_1"}
PaymentIds == {"pay_1"}
\* the signature of the request's own ids, the signature of another payment, and
\* a digest made with another key
Signatures == {Hmac(Secret, o, p) : o \in OrderIds, p \in PaymentIds \cup {"pay_2"}}
                \cup {Hmac("forged", "order_1", "pay_1")}

Names == {Undef, Str(<<"n">>)}
Addresses == {Str(<<>>), Str(<<"a">>)}
Mobiles == {Undef, Str(Chars("1", 5)), Str(Chars("1", 10)), Str(Chars("1", 11)),
            Str(Chars("1", 9) \o <<"x">>), Num(1234567890), Num(12345)}
Amounts == {Undef, Num(0), Num(5), Num(10), Num(20), Str(<<"2", "0">>)}

NoId == "-"
NoSig == <<>>

\* the body of POST /api/create-order
CreateBodies == [name : Names, mobile : Mobiles, address : Addresses, amount : Amounts,
                 razorpay_order_id : {NoId}, razorpay_payment_id : {NoId},
                 razorpay_signature : {NoSig}]
\* the create-order bodies sent while other requests are in flight: one that
\* passes validation and one that fails it
SampleCreateBodies ==
    {b \in CreateBodies :
        /\ b.name = Str(<<"n">>) /\ b.address = Str(<<"a">>) /\ b.amount = Num(20)
        /\ b.mobile \in {Str(Chars("1", 10)), Str(Chars("1", 5))}}
\* the body of POST /api/verify-payment
VerifyBodies == [name : {Str(<<"n">>)}, mobile : {Str(Chars("1", 10))},
                 address : {Str(<<"a">>)}, amount : {Num(10), Num(20)},
                 razorpay_order_id : OrderIds, razorpay_payment_id : PaymentIds,
                 razorpay_signature : Signatures]
\* a request without a body, and the locals of a handler that has returned
NoBody == [name |-> Undef, mobile |-> Undef, address |-> Undef, amount |-> Undef,
           razorpay_order_id |-> NoId, razorpay_payment_id |-> NoId,
           razorpay_signature |-> NoSig]

\* ---------------------------------------------------------------- state
VARIABLES
    counter,      \* counter.total_orders of row id = 1 as env.DB reads it, or NoRow
    payments,     \* the rows of payments as env.DB reads them, in insertion order
    txnOpen,      \* env.DB has an open transaction
    durable,      \* what is committed: [counter, payments]
    pc,           \* per request: the await its handler is suspended at
    req,          \* per request: the parsed body
    orderNumber,  \* per request: the local orderNumber of handleVerifyPayment
    err,          \* per request: the statement whose failure the catch block holds
    providerCalls,\* per request: calls made to the payment provider
    resp          \* per request: the response, once the handler has settled

vars == <<counter, payments, txnOpen, durable, pc, req, orderNumber, err,
          providerCalls, resp>>

NoRow == -1

\* a response body { k: v }
Data(k, v) == [k |-> k, v |-> v]
\* jsonResponse(data, status = 200)
jsonResponse(data, status) == [status |-> status, body |-> data]
NoResp == jsonResponse(Data("pending", ""), 0)
\* the handler's promise rejected with Error(msg)
Rejection(msg) == jsonResponse(Data("rejected", msg), 0)

\* schema: payments empty, INSERT OR IGNORE INTO counter (id, total_orders) VALUES (1, 0)
Init ==
    /\ counter = 0
    /\ payments = <<>>
    /\ txnOpen = FALSE
    /\ durable = [counter |-> 0, payments |-> <<>>]
    /\ pc = [r \in Reqs |-> "idle"]
    /\ req = [r \in Reqs |-> NoBody]
    /\ orderNumber = [r \in Reqs |-> 0]
    /\ err = [r \in Reqs |-> "none"]
    /\ providerCalls = [r \in Reqs |-> 0]
    /\ resp = [r \in Reqs |-> NoResp]

\* the tables exist but the counter row was never inserted (the schema script
\* stopped before its INSERT OR IGNORE, or the row was deleted by hand)
InitNoRow ==
    /\ counter = NoRow
    /\ payments = <<>>
    /\ txnOpen = FALSE
    /\ durable = [counter |-> NoRow, payments |-> <<>>]
    /\ pc = [r \in Reqs |-> "idle"]
    /\ req = [r \in Reqs |-> NoBody]
    /\ orderNumber = [r \in Reqs |-> 0]
    /\ err = [r \in Reqs |-> "none"]
    /\ providerCalls = [r \in Reqs |-> 0]
    /\ resp = [r \in Reqs |-> NoResp]

\* a store without transactions: every write is committed with its statement
WrittenAutocommit(c, p) == [counter |-> c, payments |-> p]

\* a write on env.DB: inside the open transaction it stays uncommitted, outside
\* it is committed with the statement
Written(c, p) == IF txnOpen THEN durable ELSE [counter |-> c, payments |-> p]

\* the handler of request r settles with response x; its locals are gone
Settle(r, x) ==
    /\ pc' = [pc EXCEPT ![r] = "done"]
    /\ resp' = [resp EXCEPT ![r] = x]
    /\ req' = [req EXCEPT ![r] = NoBody]
    /\ orderNumber' = [orderNumber EXCEPT ![r] = 0]
    /\ err' = [err EXCEPT ![r] = "none"]

Goto(r, l) == pc' = [pc EXCEPT ![r] = l]

\* request r arrives: requests are numbered in their order of arrival
Arrives(r) == pc[r] = "idle" /\ \A q \in Reqs : q < r => pc[q] # "idle"

store == <<counter, payments, txnOpen, durable>>
locals == <<req, orderNumber, err>>

\* ------------------------------------------------------ GET /api/next-amount
\* fetch: case "/api/next-amount": return handleNextAmount(env.DB)
FetchNextAmount(r) ==
    /\ Arrives(r)
    /\ Goto(r, "na_select")
    /\ UNCHANGED <<store, locals, providerCalls, resp>>

\* getNextOrderInfo: row ? row.total_orders : 0, then (totalOrders + 1) * 10
getNextOrderInfo(row) ==
    LET totalOrders == IF row # NoRow THEN row ELSE 0
    IN  [totalOrders |-> totalOrders, nextAmount |-> (totalOrders + 1) * UnitPrice]

\* a quote that also takes the number it quotes
NextAmountReserves(r) ==
    /\ pc[r] = "na_select"
    /\ Settle(r, jsonResponse(Data("nextAmount", getNextOrderInfo(counter).nextAmount), 200))
    /\ counter' = IF counter = NoRow THEN NoRow ELSE counter + 1
    /\ durable' = Written(counter', payments)
    /\ UNCHANGED <<payments, txnOpen, providerCalls>>

\* handleNextAmount once SELECT total_orders FROM counter WHERE id = 1 resolves
NextAmountOk(r) ==
    /\ pc[r] = "na_select"
    /\ Settle(r, jsonResponse(Data("nextAmount", getNextOrderInfo(counter).nextAmount), 200))
    /\ UNCHANGED <<store, providerCalls>>

\* the SELECT rejects: handleNextAmount has no catch
NextAmountFail(r) ==
    /\ pc[r] = "na_select"
    /\ Settle(r, Rejection("select failed"))
    /\ UNCHANGED <<store, providerCalls>>

\* ---------------------------------------------------- POST /api/create-order
\* fetch: case "/api/create-order": return handleCreateOrder(request, env)
FetchCreateOrderFrom(r, bodies) ==
    /\ Arrives(r)
    /\ \E b \in bodies : req' = [req EXCEPT ![r] = b]
    /\ Goto(r, "co_body")
    /\ UNCHANGED <<store, orderNumber, err, providerCalls, resp>>

FetchCreateOrder(r) == FetchCreateOrderFrom(r, SampleCreateBodies)

\* a create-order request with any body, no other request being in flight
FetchCreateOrderAlone(r) ==
    /\ \A q \in Reqs : pc[q] \in {"idle", "done"}
    /\ FetchCreateOrderFrom(r, CreateBodies)

\* the checks with the mobile check ahead of the required-fields check
ValidateMobileFirst(b) ==
    IF ~MobileOk(b.mobile)
    THEN jsonResponse(Data("error", "Invalid mobile number"), 400)
    ELSE IF Falsy(b.name) \/ Falsy(b.mobile) \/ Falsy(b.address)
    THEN jsonResponse(Data("error", "All fields are required"), 400)
    ELSE IF AmountBad(b.amount)
    THEN jsonResponse(Data("error", "Invalid amount. Minimum amount is 10"), 400)
    ELSE NoResp

\* the three checks of handleCreateOrder, in the code's order: the 400 response,
\* or NoResp when all pass
Validate(b) ==
    IF Falsy(b.name) \/ Falsy(b.mobile) \/ Falsy(b.address)
    THEN jsonResponse(Data("error", "All fields are required"), 400)
    ELSE IF ~MobileOk(b.mobile)
    THEN jsonResponse(Data("error", "Invalid mobile number"), 400)
    ELSE IF AmountBad(b.amount)
    THEN jsonResponse(Data("error", "Invalid amount. Minimum amount is 10"), 400)
    ELSE NoResp

\* handleCreateOrder once request.json() resolves, up to the provider call
CreateOrderValidate(r) ==
    /\ pc[r] = "co_body"
    /\ IF Validate(req[r]) # NoResp
       THEN /\ Settle(r, Validate(req[r]))
            /\ UNCHANGED providerCalls
       ELSE /\ Goto(r, "co_provider")
            /\ providerCalls' = [providerCalls EXCEPT ![r] = @ + 1]
            /\ UNCHANGED <<locals, resp>>
    /\ UNCHANGED store

\* createRazorpayOrder resolves: { order_id: order.id, amount: amount, key }; the
\* response is modelled by the amount it echoes
CreateOrderOk(r) ==
    /\ pc[r] = "co_provider"
    /\ Settle(r, jsonResponse(Data("order_id", req[r].amount.v), 200))
    /\ UNCHANGED <<store, providerCalls>>

\* createRazorpayOrder throws (!res.ok, or fetch rejects): no catch in the handler
CreateOrderFail(r) ==
    /\ pc[r] = "co_provider"
    /\ Settle(r, Rejection("Razorpay order creation failed"))
    /\ UNCHANGED <<store, providerCalls>>

\* -------------------------------------------------- POST /api/verify-payment
\* fetch: case "/api/verify-payment": return handleVerifyPayment(request, env)
FetchVerifyPayment(r) ==
    /\ Arrives(r)
    /\ \E b \in VerifyBodies : req' = [req EXCEPT ![r] = b]
    /\ Goto(r, "vp_body")
    /\ UNCHANGED <<store, orderNumber, err, providerCalls, resp>>

\* handleVerifyPayment once request.json() and verifySignature resolve
VerifyCheckSignature(r) ==
    /\ pc[r] = "vp_body"
    /\ IF ~verifySignature(req[r].razorpay_order_id, req[r].razorpay_payment_id,
                           req[r].razorpay_signature, Secret)
       THEN Settle(r, jsonResponse(Data("error", "Invalid payment signature"), 400))
       ELSE /\ Goto(r, "vp_begin")
            /\ UNCHANGED <<locals, resp>>
    /\ UNCHANGED <<store, providerCalls>>

\* a BEGIN that also resolves inside an open transaction, joining it
VerifyBeginNested(r) ==
    /\ pc[r] = "vp_begin"
    /\ txnOpen' = TRUE
    /\ Goto(r, "vp_update")
    /\ UNCHANGED <<counter, payments, durable, locals, providerCalls, resp>>

\* db.exec("BEGIN TRANSACTION") resolves: the handle had no open transaction
VerifyBeginOk(r) ==
    /\ pc[r] = "vp_begin"
    /\ ~txnOpen
    /\ txnOpen' = TRUE
    /\ Goto(r, "vp_update")
    /\ UNCHANGED <<counter, payments, durable, locals, providerCalls, resp>>

\* db.exec("BEGIN TRANSACTION") rejects (a transaction is open on the handle, or
\* the store fails): the call is outside the try block
VerifyBeginFail(r) ==
    /\ pc[r] = "vp_begin"
    /\ Settle(r, Rejection("begin failed"))
    /\ UNCHANGED <<store, providerCalls>>

\* the catch block is entered with the error of statement stmt
Catch(r, stmt) ==
    /\ err' = [err EXCEPT ![r] = stmt]
    /\ Goto(r, "vp_rollback")
    /\ UNCHANGED <<store, req, orderNumber, providerCalls, resp>>

\* an upsert: the row is created with total_orders = 1 when it is absent
UpdateCounterUpsert(c) == IF c = NoRow THEN 1 ELSE c + 1

\* an UPDATE that leaves total_orders as it was
UpdateCounterNoIncrement(c) == c

\* an UPDATE that adds 2
UpdateCounterTwice(c) == IF c = NoRow THEN NoRow ELSE c + 2

\* UPDATE counter SET total_orders = total_orders + 1 WHERE id = 1
UpdateCounter(c) == IF c = NoRow THEN NoRow ELSE c + 1

VerifyUpdateOk(r) ==
    /\ pc[r] = "vp_update"
    /\ counter' = UpdateCounter(counter)
    /\ durable' = Written(counter', payments)
    /\ Goto(r, "vp_select")
    /\ UNCHANGED <<payments, txnOpen, locals, providerCalls, resp>>

VerifyUpdateFail(r) ==
    /\ pc[r] = "vp_update"
    /\ Catch(r, "update")

\* a read-back that returns the committed total_orders, not the incremented one
VerifySelectStale(r) ==
    /\ pc[r] = "vp_select"
    /\ counter # NoRow
    /\ orderNumber' = [orderNumber EXCEPT ![r] = durable.counter]
    /\ Goto(r, "vp_insert")
    /\ UNCHANGED <<store, req, err, providerCalls, resp>>

\* SELECT total_orders FROM counter WHERE id = 1, then counterRow.total_orders
\* (a TypeError when first() gave null)
VerifySelectOk(r) ==
    /\ pc[r] = "vp_select"
    /\ counter # NoRow
    /\ orderNumber' = [orderNumber EXCEPT ![r] = counter]
    /\ Goto(r, "vp_insert")
    /\ UNCHANGED <<store, req, err, providerCalls, resp>>

VerifySelectFail(r) ==
    /\ pc[r] = "vp_select"
    /\ Catch(r, "select")

\* the row INSERT INTO payments binds
PaymentRow(n, b) ==
    [order_number |-> n, name |-> b.name, mobile |-> b.mobile, address |-> b.address,
     amount |-> b.amount, razorpay_order_id |-> b.razorpay_order_id,
     razorpay_payment_id |-> b.razorpay_payment_id]

\* an INSERT into a table with a UNIQUE razorpay_payment_id
VerifyInsertUnique(r) ==
    /\ pc[r] = "vp_insert"
    /\ \A i \in DOMAIN payments :
          payments[i].razorpay_payment_id # req[r].razorpay_payment_id
    /\ payments' = Append(payments, PaymentRow(orderNumber[r], req[r]))
    /\ durable' = Written(counter, payments')
    /\ Goto(r, "vp_commit")
    /\ UNCHANGED <<counter, txnOpen, locals, providerCalls, resp>>

VerifyInsertOk(r) ==
    /\ pc[r] = "vp_insert"
    /\ payments' = Append(payments, PaymentRow(orderNumber[r], req[r]))
    /\ durable' = Written(counter, payments')
    /\ Goto(r, "vp_commit")
    /\ UNCHANGED <<counter, txnOpen, locals, providerCalls, resp>>

VerifyInsertFail(r) ==
    /\ pc[r] = "vp_insert"
    /\ Catch(r, "insert")

\* db.exec("COMMIT") resolves, then return jsonResponse({ status: "success", orderNumber })
VerifyCommitOk(r) ==
    /\ pc[r] = "vp_commit"
    /\ txnOpen
    /\ durable' = [counter |-> counter, payments |-> payments]
    /\ txnOpen' = FALSE
    /\ Settle(r, jsonResponse(Data("orderNumber", orderNumber[r]), 200))
    /\ UNCHANGED <<counter, payments, providerCalls>>

VerifyCommitFail(r) ==
    /\ pc[r] = "vp_commit"
    /\ Catch(r, "commit")

\* a catch block that undoes by hand: it takes 1 off the counter and deletes
\* the newest payment row, then commits
VerifyRollbackCompensates(r) ==
    /\ pc[r] = "vp_rollback"
    /\ txnOpen
    /\ counter' = counter - 1
    /\ payments' = SubSeq(payments, 1, Len(payments) - 1)
    /\ durable' = [counter |-> counter', payments |-> payments']
    /\ txnOpen' = FALSE
    /\ Settle(r, jsonResponse(Data("error", <<"Database error: ", err[r]>>), 500))
    /\ UNCHANGED providerCalls

\* catch: db.exec("ROLLBACK") resolves, then the 500 response
VerifyRollbackOk(r) ==
    /\ pc[r] = "vp_rollback"
    /\ txnOpen
    /\ counter' = durable.counter
    /\ payments' = durable.payments
    /\ txnOpen' = FALSE
    /\ Settle(r, jsonResponse(Data("error", <<"Database error: ", err[r]>>), 500))
    /\ UNCHANGED <<durable, providerCalls>>

\* db.exec("ROLLBACK") rejects inside the catch block
VerifyRollbackFail(r) ==
    /\ pc[r] = "vp_rollback"
    /\ Settle(r, Rejection("rollback failed"))
    /\ UNCHANGED <<store, providerCalls>>

\* ------------------------------------------------------------ the system
Next ==
    \E r \in Reqs :
        \/ FetchNextAmount(r)
        \/ NextAmountOk(r)
        \/ NextAmountFail(r)
        \/ FetchCreateOrder(r)
        \/ CreateOrderValidate(r)
        \/ CreateOrderOk(r)
        \/ CreateOrderFail(r)
        \/ FetchVerifyPayment(r)
        \/ VerifyCheckSignature(r)
        \/ VerifyBeginOk(r)
        \/ VerifyBeginFail(r)
        \/ VerifyUpdateOk(r)
        \/ VerifyUpdateFail(r)
        \/ VerifySelectOk(r)
        \/ VerifySelectFail(r)
        \/ VerifyInsertOk(r)
        \/ VerifyInsertFail(r)
        \/ VerifyCommitOk(r)
        \/ VerifyCommitFail(r)
        \/ VerifyRollbackOk(r)
        \/ VerifyRollbackFail(r)

Spec == Init /\ [][Next]_vars

\* every pending await of a request is eventually resolved or rejected
Step(r) ==
    \/ NextAmountOk(r) \/ NextAmountFail(r)
    \/ CreateOrderValidate(r) \/ CreateOrderOk(r) \/ CreateOrderFail(r)
    \/ VerifyCheckSignature(r)
    \/ VerifyBeginOk(r) \/ VerifyBeginFail(r)
    \/ VerifyUpdateOk(r) \/ VerifyUpdateFail(r)
    \/ VerifySelectOk(r) \/ VerifySelectFail(r)
    \/ VerifyInsertOk(r) \/ VerifyInsertFail(r)
    \/ VerifyCommitOk(r) \/ VerifyCommitFail(r)
    \/ VerifyRollbackOk(r) \/ VerifyRollbackFail(r)

FairSpec == Spec /\ \A r \in Reqs : WF_vars(Step(r))

\* the requests that use the store, started with or without the counter row
NextStore ==
    \E r \in Reqs :
        \/ FetchNextAmount(r)
        \/ NextAmountOk(r)
        \/ NextAmountFail(r)
        \/ FetchVerifyPayment(r)
        \/ VerifyCheckSignature(r)
        \/ VerifyBeginOk(r)
        \/ VerifyBeginFail(r)
        \/ VerifyUpdateOk(r)
        \/ VerifyUpdateFail(r)
        \/ VerifySelectOk(r)
        \/ VerifySelectFail(r)
        \/ VerifyInsertOk(r)
        \/ VerifyInsertFail(r)
        \/ VerifyCommitOk(r)
        \/ VerifyCommitFail(r)
        \/ VerifyRollbackOk(r)
        \/ VerifyRollbackFail(r)

SpecAnyRow == (Init \/ InitNoRow) /\ [][NextStore]_vars

\* create-order requests alone, one at a time, over every body of CreateBodies
NextCreate ==
    \E r \in Reqs :
        \/ FetchCreateOrderAlone(r)
        \/ CreateOrderValidate(r)
        \/ CreateOrderOk(r)
        \/ CreateOrderFail(r)

SpecCreate == Init /\ [][NextCreate]_vars

\* ================================================================ claims
\* the requests whose verification committed, and the numbers of a payments table
Committed == {r \in Reqs : pc[r] = "done" /\ resp[r].body.k = "orderNumber"}
OrderNumbers(p) == {p[i].order_number : i \in DOMAIN p}
SignatureMatches(b) ==
    b.razorpay_signature = Hmac(Secret, b.razorpay_order_id, b.razorpay_payment_id)
DatabaseError(stmt) == jsonResponse(Data("error", <<"Database error: ", stmt>>), 500)
InvalidSignature == jsonResponse(Data("error", "Invalid payment signature"), 400)

\* C1: under every interleaving of requests, the order_numbers of the committed
\* payment records are exactly 1..M, M being the number of verifications that
\* committed, each number held by one record and returned to one request.
C1_NoGapsNoDuplicates ==
    LET M == Cardinality(Committed)
    IN  /\ OrderNumbers(durable.payments) = 1..M
        /\ Len(durable.payments) = M
        /\ {resp[r].body.v : r \in Committed} = 1..M
        /\ durable.counter = M

\* two verifications that overlapped: the one that arrived second got number 1
C1_Witness ==
    \E a, b \in Reqs :
        /\ a < b
        /\ {a, b} \subseteq Committed
        /\ resp[b].body.v = 1
        /\ resp[a].body.v = 2
        /\ ~txnOpen /\ counter = 2

\* C2: when a statement after the counter increment (read-back, insert, commit)
\* has failed and the handler's ROLLBACK is carried out, the counter is back at
\* its value before the increment, no record carries the would-be order number,
\* and the request is answered 500 "Database error".
C2_RollbackRestores ==
    [][\A r \in Reqs :
          (/\ pc[r] = "vp_rollback"
           /\ err[r] \in {"select", "insert", "commit"}
           /\ pc'[r] = "done"
           /\ resp'[r].status # 0)
          => /\ counter' = counter - 1
             /\ durable'.counter = counter - 1
             /\ counter \notin OrderNumbers(payments')
             /\ counter \notin OrderNumbers(durable'.payments)
             /\ resp'[r] = DatabaseError(err[r])]_vars

\* a request whose INSERT failed was rolled back to the empty ledger
C2_Witness ==
    \E r \in Reqs :
        /\ pc[r] = "done"
        /\ resp[r] = DatabaseError("insert")
        /\ counter = 0 /\ payments = <<>> /\ ~txnOpen

\* C3: whenever no transaction is open, total_orders is the number of payment
\* records and the largest order_number among them (0 when there is none).
C3_CounterIsCount ==
    ~txnOpen =>
        /\ counter = Len(payments)
        /\ \A i \in DOMAIN payments : payments[i].order_number <= counter
        /\ counter > 0 => counter \in OrderNumbers(payments)
        /\ durable = [counter |-> counter, payments |-> payments]

C3_Witness == ~txnOpen /\ counter = 2 /\ Len(payments) = 2

\* C4: a verify-payment request whose signature does not match is answered 400
\* "Invalid payment signature" in the step that checks it, with the counter and
\* the payment records untouched.
C4_BadSignatureRejected ==
    [][\A r \in Reqs :
          (pc[r] = "vp_body" /\ ~SignatureMatches(req[r]) /\ pc'[r] # "vp_body")
          => /\ pc'[r] = "done"
             /\ resp'[r] = InvalidSignature
             /\ store' = store]_vars

\* a request was rejected for its signature after another one had committed
C4_Witness ==
    \E r \in Reqs :
        /\ pc[r] = "done" /\ resp[r] = InvalidSignature
        /\ counter = 1 /\ Len(payments) = 1

\* C5: a next-amount request answered when exactly N verifications have
\* committed returns (N + 1) * 10.
C5_QuoteIsNextOrder ==
    [][\A r \in Reqs :
          (pc[r] = "na_select" /\ resp'[r].body.k = "nextAmount")
          => resp'[r].body.v = (Cardinality(Committed) + 1) * 10]_vars

\* C6: total_orders, as a request reads it, never decreases and rises by at
\* most 1 in a step.
C6_CounterNeverDecreases ==
    [][counter' >= counter /\ counter' <= counter + 1]_vars

\* the responses and rejections handleVerifyPayment ends with
VerifyRejections == {Rejection("begin failed"), Rejection("rollback failed")}
VerifySettled(r) ==
    /\ pc[r] = "done"
    /\ \/ resp[r] = InvalidSignature
       \/ resp[r].body.k = "orderNumber"
       \/ resp[r] \in {DatabaseError(stmt) : stmt \in {"update", "select", "insert", "commit"}}
       \/ resp[r] \in VerifyRejections

\* C7: every verify-payment request ends Rejected (400), Committed (success, its
\* orderNumber that of exactly one committed record) or RolledBack (500), and a
\* request that ended in an error has left no counter increment behind.
C7_ThreeOutcomes ==
    \A r \in Reqs :
        VerifySettled(r) =>
            \/ resp[r] = InvalidSignature
            \/ /\ resp[r].status = 200
               /\ Cardinality({i \in DOMAIN durable.payments :
                                 durable.payments[i].order_number = resp[r].body.v}) = 1
            \/ resp[r].status = 500

\* C8: a verify-payment request that has begun its transaction eventually
\* returns a response, its transaction committed or rolled back.
C8_TransactionsFinish ==
    \A r \in Reqs :
        (pc[r] = "vp_update") ~> (pc[r] = "done" /\ resp[r].status \in {200, 500})

\* C9: every request that has settled was answered with a JSON response; no
\* handler's error is left as a rejection.
C9_NoRejectionEscapes ==
    \A r \in Reqs : pc[r] = "done" => resp[r].status # 0

\* the outcome the validation order fields, mobile, amount prescribes for a body
FieldMissing(b) == Falsy(b.name) \/ Falsy(b.mobile) \/ Falsy(b.address)
ExpectedValidation(b) ==
    IF FieldMissing(b) THEN "All fields are required"
    ELSE IF ~MobileOk(b.mobile) THEN "Invalid mobile number"
    ELSE IF b.amount.t # "number" \/ b.amount.v < 10
    THEN "Invalid amount. Minimum amount is 10"
    ELSE "ok"

\* C10: create-order checks required fields, then the mobile, then the amount;
\* the first check that fails gives the 400 response and no provider call is
\* made; when all pass, one provider call is made, and never a second.
C10_ValidationOrder ==
    /\ [][\A r \in Reqs :
            (pc[r] = "co_body" /\ pc'[r] # "co_body")
            => IF ExpectedValidation(req[r]) = "ok"
               THEN pc'[r] = "co_provider" /\ providerCalls'[r] = 1
               ELSE /\ pc'[r] = "done"
                    /\ resp'[r] = jsonResponse(Data("error", ExpectedValidation(req[r])), 400)
                    /\ providerCalls'[r] = 0]_vars
    /\ [][\A r \in Reqs :
            pc[r] # "co_body" => providerCalls'[r] = providerCalls[r]]_vars

\* a request with a bad mobile was refused without a provider call, after
\* another request had passed the checks and made its one call
C10_Witness ==
    \E a, b \in Reqs :
        /\ pc[a] = "done" /\ resp[a].body.k = "order_id" /\ providerCalls[a] = 1
        /\ pc[b] = "done"
        /\ resp[b] = jsonResponse(Data("error", "Invalid mobile number"), 400)
        /\ providerCalls[b] = 0

\* C11: a step of a next-amount or create-order request, whatever its outcome
\* and whatever else is in flight, leaves the counter, the payment records and
\* the transaction as they were; the counter changes only in a step of a
\* verify-payment request inside its transaction.
C11_OnlyVerifyWrites ==
    /\ [][\A r \in Reqs :
            (pc[r] \in {"idle", "na_select", "co_body", "co_provider"} /\ pc'[r] # pc[r])
            => store' = store]_vars
    /\ [][(counter' # counter \/ payments' # payments \/ durable' # durable)
            => /\ txnOpen
               /\ \E r \in Reqs :
                    /\ pc[r] \in {"vp_update", "vp_insert", "vp_commit", "vp_rollback"}
                    /\ pc'[r] # pc[r]]_vars

\* a quote was answered and a provider call failed while a verification had
\* its increment uncommitted
C11_Witness ==
    \E a, b, c \in Reqs :
        /\ pc[a] = "done" /\ resp[a].body.k = "nextAmount"
        /\ pc[b] = "done" /\ resp[b] = Rejection("Razorpay order creation failed")
        /\ pc[c] = "vp_select" /\ txnOpen
        /\ counter = 1 /\ durable.counter = 0

\* C12: every committed payment record with order_number k has amount k * 10.
C12_AmountIsLadder ==
    \A i \in DOMAIN durable.payments :
        durable.payments[i].amount = Num(durable.payments[i].order_number * 10)

\* C13: a verify-payment request goes on to BEGIN TRANSACTION exactly when its
\* signature is the keyed hash of its own order id and payment id under the
\* server's secret, and is answered 400 otherwise, whatever its other fields
\* and whatever the store holds.
C13_ProceedsIffSignatureMatches ==
    [][\A r \in Reqs :
          (pc[r] = "vp_body" /\ pc'[r] # "vp_body")
          => /\ (pc'[r] = "vp_begin")
                    <=> (req[r].razorpay_signature =
                           <<Secret, req[r].razorpay_order_id, "|", req[r].razorpay_payment_id>>)
             /\ pc'[r] \in {"vp_begin", "done"}
             /\ pc'[r] = "done" => resp'[r] = InvalidSignature
             /\ store' = store /\ req'[r] \in {req[r], NoBody}]_vars

\* requests with different amounts passed the check, one of them while the
\* other's increment was uncommitted, and one with a signature made for
\* another payment was refused
C13_Witness ==
    \E a, b, c \in Reqs :
        /\ pc[a] = "vp_select" /\ req[a].amount = Num(10) /\ counter = 1
        /\ pc[b] = "vp_begin" /\ req[b].amount = Num(20)
        /\ pc[c] = "done" /\ resp[c] = InvalidSignature

\* C14: the verification that is the N-th to commit is answered order number N,
\* so a verification that commits later gets a larger number than every one
\* that committed before it.
C14_NumbersFollowCommitOrder ==
    [][\A r \in Reqs :
          (pc[r] = "vp_commit" /\ resp'[r].body.k = "orderNumber")
          => /\ resp'[r].body.v = Cardinality(Committed) + 1
             /\ \A q \in Committed : resp[q].body.v < resp'[r].body.v
             /\ durable'.payments[Len(durable'.payments)].order_number = resp'[r].body.v]_vars

\* three verifications committed in the reverse of their order of arrival
C14_Witness ==
    /\ Committed = {1, 2, 3}
    /\ resp[3].body.v = 1 /\ resp[2].body.v = 2 /\ resp[1].body.v = 3

\* C15: a request's UPDATE adds 1 to the counter, no other request's statement
\* changes the counter between that UPDATE and the request's read-back, and
\* the read-back gives that value: the order number read is the counter before
\* the request's own UPDATE plus 1, and no two requests hold the same number.
C15_ReadBackIsOwnIncrement ==
    /\ [][\A r \in Reqs :
            (pc[r] = "vp_update" /\ pc'[r] = "vp_select") => counter' = counter + 1]_vars
    /\ [][\A r \in Reqs :
            (pc[r] = "vp_select" /\ pc'[r] = "vp_select") => counter' = counter]_vars
    /\ [][\A r \in Reqs :
            (pc[r] = "vp_select" /\ pc'[r] = "vp_insert") => orderNumber'[r] = counter]_vars
    /\ [](\A a, b \in Reqs :
            (a # b /\ pc[a] \in {"vp_insert", "vp_commit"} /\ pc[b] \in {"vp_insert", "vp_commit"})
            => orderNumber[a] # orderNumber[b])
    /\ [](\A r \in Reqs : pc[r] = "vp_select" => counter = durable.counter + 1)

\* a request has read back 2 while two other verifications, one committed and
\* one waiting at BEGIN, are around it
C15_Witness ==
    \E a, b, c \in Reqs :
        /\ pc[a] = "vp_insert" /\ orderNumber[a] = 2
        /\ pc[b] = "vp_begin"
        /\ c \in Committed /\ resp[c].body.v = 1

\* C16: a committed payment record stays as it is, at its place, in what is
\* committed and in what env.DB reads, through every later step (the ROLLBACK
\* of another request included), and total_orders never gets below its
\* order_number.
C16_CommittedRecordsStay ==
    [][\A i \in DOMAIN durable.payments :
          /\ i \in DOMAIN durable'.payments
          /\ durable'.payments[i] = durable.payments[i]
          /\ i \in DOMAIN payments'
          /\ payments'[i] = durable.payments[i]
          /\ counter' >= durable.payments[i].order_number
          /\ durable'.counter >= durable.payments[i].order_number]_vars

\* record 1 is committed, one verification has been rolled back and another,
\* which read back 2 and inserted its row, is about to ROLLBACK
C16_Witness ==
    \E a, b, c \in Reqs :
        /\ a \in Committed /\ resp[a].body.v = 1
        /\ pc[b] = "done" /\ resp[b] = DatabaseError("insert")
        /\ pc[c] = "vp_rollback" /\ err[c] = "commit" /\ orderNumber[c] = 2
        /\ Len(payments) = 2 /\ Len(durable.payments) = 1

\* the committed records that carry payment id p
RecordsOf(p) == {i \in DOMAIN durable.payments : durable.payments[i].razorpay_payment_id = p}

\* C17: a verification whose payment id is already recorded is treated like
\* any other: its INSERT can go through, and when it commits it adds one more
\* record with the same razorpay_payment_id under the next order number and
\* the counter advances by 1.
C17_ResubmissionCommitsAgain ==
    /\ [](\A r \in Reqs :
            (pc[r] = "vp_insert" /\ RecordsOf(req[r].razorpay_payment_id) # {})
            => ENABLED VerifyInsertOk(r))
    /\ [][\A r \in Reqs :
            (/\ pc[r] = "vp_commit"
             /\ resp'[r].body.k = "orderNumber"
             /\ RecordsOf(req[r].razorpay_payment_id) # {})
            => /\ durable'.counter = durable.counter + 1
               /\ resp'[r].body.v = durable.counter + 1
               /\ Len(durable'.payments) = Len(durable.payments) + 1
               /\ durable'.payments[Len(durable'.payments)].order_number
                     = durable.counter + 1
               /\ durable'.payments[Len(durable'.payments)].razorpay_payment_id
                     = req[r].razorpay_payment_id
               /\ \A i \in DOMAIN durable.payments :
                     durable'.payments[i] = durable.payments[i]]_vars

\* the same payment id is recorded three times, under order numbers 1, 2, 3
C17_Witness ==
    /\ durable.counter = 3
    /\ RecordsOf("pay_1") = {1, 2, 3}
    /\ \A i \in 1..3 : durable.payments[i].order_number = i
    /\ Cardinality(Committed) = 3

\* C18: while the counter row is absent, next-amount answers 10; the UPDATE of
\* a verify-payment request with a valid signature goes through without
\* creating the row, its read-back fails, a ROLLBACK that is carried out is
\* answered 500 "Database error", and no payment record is ever inserted.
C18_AbsentCounterRow ==
    /\ [](counter = NoRow =>
            /\ payments = <<>>
            /\ durable = [counter |-> NoRow, payments |-> <<>>]
            /\ \A r \in Reqs :
                 /\ pc[r] \notin {"vp_insert", "vp_commit"}
                 /\ resp[r].body.k # "orderNumber"
                 /\ resp[r].body.k = "nextAmount" => resp[r].body.v = 10
                 /\ pc[r] = "vp_update" => ENABLED VerifyUpdateOk(r))
    /\ [][counter = NoRow => counter' = NoRow]_vars
    /\ [][\A r \in Reqs :
            (counter = NoRow /\ pc[r] = "vp_select" /\ pc'[r] # "vp_select")
            => pc'[r] = "vp_rollback" /\ err'[r] = "select"]_vars
    /\ [][\A r \in Reqs :
            (/\ counter = NoRow /\ pc[r] = "vp_rollback" /\ err[r] = "select"
             /\ pc'[r] = "done" /\ resp'[r].status # 0)
            => resp'[r] = DatabaseError("select")]_vars

\* without the row, a quote of 10 was answered and a verification with a
\* valid signature ended in 500 at its read-back
C18_Witness ==
    /\ counter = NoRow /\ payments = <<>> /\ ~txnOpen
    /\ \E a, b \in Reqs :
        /\ pc[a] = "done" /\ resp[a] = jsonResponse(Data("nextAmount", 10), 200)
        /\ pc[b] = "done" /\ resp[b] = DatabaseError("select")

====
